---- MODULE Spec2Model ----
(***************************************************************************)
(* A model of replace_heads_of_audio_paths_in_m3u.py: the Unicode          *)
(* precomposition (Diacritics), the path reference (AudioPath), the        *)
(* playlist document (M3uFile) and the per-playlist driver loop.           *)
(*                                                                         *)
(* Text is a sequence of characters; a character is a one-element name.    *)
(* pathlib.Path is modelled with POSIX semantics (PurePosixPath), a Path   *)
(* value being the text str(Path(...)) returns.                            *)
(***************************************************************************)
EXTENDS Integers, Sequences, FiniteSets, TLC

\* ---------------------------------------------------------------- bounds

\* Most lines of a playlist text.
MaxLines == 2
\* Longest text given to the precomposition on its own.
MaxTextLen == 3
\* Most playlists the driver loop is given.
MaxPlaylists == 2

\* ------------------------------------------------------------ characters

SL == "/"
SP == " "
HASH == "#"
DOT == "."
LF == "LF"
CR == "CR"
\* U+0301 COMBINING ACUTE ACCENT, canonical combining class 230.
ACUTE == "U+0301"
\* U+00E1 LATIN SMALL LETTER A WITH ACUTE, decomposes to a + U+0301.
A_ACUTE == "U+00E1"
\* U+0F73 TIBETAN VOWEL SIGN II: class 0, decomposes to U+0F71 U+0F72 and is
\* excluded from composition.
TIB_II == "U+0F73"
\* U+0F71 TIBETAN VOWEL SIGN AA, class 129.
TIB_AA == "U+0F71"
\* U+0F72 TIBETAN VOWEL SIGN I, class 130.
TIB_I == "U+0F72"

\* str.splitlines() breaks a line at these (of the characters modelled).
LineBreaks == {LF, CR}
\* str.strip() removes these from both ends.
Whitespace == {SP, LF, CR}

\* -------------------------------------------------------- text utilities

RECURSIVE Flatten(_)
Flatten(ss) == IF ss = <<>> THEN <<>> ELSE Head(ss) \o Flatten(Tail(ss))

Front(s) == SubSeq(s, 1, Len(s) - 1)

Last(s) == s[Len(s)]

MatchAt(s, k, old) ==
    /\ k + Len(old) - 1 <= Len(s)
    /\ SubSeq(s, k, k + Len(old) - 1) = old

\* str.replace(old, new): every non-overlapping occurrence, left to right.
RECURSIVE ReplaceFrom(_, _, _, _)
ReplaceFrom(s, k, old, new) ==
    IF k > Len(s) THEN <<>>
    ELSE IF old # <<>> /\ MatchAt(s, k, old)
         THEN new \o ReplaceFrom(s, k + Len(old), old, new)
         ELSE <<s[k]>> \o ReplaceFrom(s, k + 1, old, new)

StrReplace(s, old, new) == ReplaceFrom(s, 1, old, new)

\* str.splitlines(keepends): the lines with the line break that ended each.
RECURSIVE SplitLinesFrom(_, _, _)
SplitLinesFrom(s, k, cur) ==
    IF k > Len(s)
    THEN IF cur = <<>> THEN <<>> ELSE << [line |-> cur, end |-> <<>>] >>
    ELSE IF s[k] = CR /\ k < Len(s) /\ s[k + 1] = LF
         THEN << [line |-> cur, end |-> <<CR, LF>>] >> \o SplitLinesFrom(s, k + 2, <<>>)
         ELSE IF s[k] \in LineBreaks
              THEN << [line |-> cur, end |-> <<s[k]>>] >> \o SplitLinesFrom(s, k + 1, <<>>)
              ELSE SplitLinesFrom(s, k + 1, Append(cur, s[k]))

SplitLinesKeep(s) == SplitLinesFrom(s, 1, <<>>)

\* str.splitlines()
SplitLines(s) == [k \in 1..Len(SplitLinesKeep(s)) |-> SplitLinesKeep(s)[k].line]

RECURSIVE LStrip(_)
LStrip(s) == IF s # <<>> /\ Head(s) \in Whitespace THEN LStrip(Tail(s)) ELSE s

RECURSIVE RStrip(_)
RStrip(s) == IF s # <<>> /\ Last(s) \in Whitespace THEN RStrip(Front(s)) ELSE s

\* str.strip()
Strip(s) == RStrip(LStrip(s))

\* ------------------------------------------------- Unicode (unicodedata)

\* unicodedata.combining(c): the canonical combining class.
CCC(c) ==
    CASE c = ACUTE -> 230
      [] c = TIB_AA -> 129
      [] c = TIB_I -> 130
      [] OTHER -> 0

\* char in __ALL_COMBINING_CHARS
IsCombining(c) == CCC(c) # 0

\* The canonical decomposition of one character.
Decomp(c) ==
    CASE c = A_ACUTE -> <<"a", ACUTE>>
      [] c = TIB_II -> <<TIB_AA, TIB_I>>
      [] OTHER -> <<c>>

\* The primary composite of a starter and a following character, or <<>>.
Composite(b, c) == IF b = "a" /\ c = ACUTE THEN <<A_ACUTE>> ELSE <<>>

RECURSIVE Decompose(_)
Decompose(s) == IF s = <<>> THEN <<>> ELSE Decomp(Head(s)) \o Decompose(Tail(s))

\* Canonical ordering: a non-starter moves before a preceding non-starter of a
\* higher class, stably.
RECURSIVE CanonicalOrder(_)
CanonicalOrder(s) ==
    LET bad == {k \in 1..(Len(s) - 1) : CCC(s[k + 1]) # 0 /\ CCC(s[k]) > CCC(s[k + 1])}
    IN IF bad = {} THEN s
       ELSE LET k == CHOOSE j \in bad : \A m \in bad : j <= m
            IN CanonicalOrder([m \in 1..Len(s) |->
                   IF m = k THEN s[k + 1] ELSE IF m = k + 1 THEN s[k] ELSE s[m]])

\* Canonical composition: out is the text composed so far, st the place of its
\* last starter (0: none).
RECURSIVE ComposeFrom(_, _, _, _)
ComposeFrom(s, k, out, st) ==
    IF k > Len(s) THEN out
    ELSE LET c == s[k]
             blocked == st # Len(out) /\ (CCC(Last(out)) = 0 \/ CCC(Last(out)) >= CCC(c))
             comp == IF st = 0 \/ blocked THEN <<>> ELSE Composite(out[st], c)
         IN IF comp # <<>>
            THEN ComposeFrom(s, k + 1, [out EXCEPT ![st] = comp[1]], st)
            ELSE ComposeFrom(s, k + 1, Append(out, c),
                             IF CCC(c) = 0 THEN Len(out) + 1 ELSE st)

\* unicodedata.normalize('NFC', s)
NFC(s) == ComposeFrom(CanonicalOrder(Decompose(s)), 1, <<>>, 0)

\* Diacritics.replace_combining_chars_to_precomposed: acc is new_text_as_chars,
\* a list of texts.
RECURSIVE PrecomposeFrom(_, _, _)
PrecomposeFrom(text, k, acc) ==
    IF k > Len(text) THEN Flatten(acc)
    ELSE LET char == text[k]
         IN IF IsCombining(char) /\ acc # <<>>
            THEN PrecomposeFrom(text, k + 1,
                                Append(Front(acc), NFC(Last(acc) \o <<char>>)))
            ELSE PrecomposeFrom(text, k + 1, Append(acc, <<char>>))

replace_combining_chars_to_precomposed(text) == PrecomposeFrom(text, 1, <<>>)

\* ------------------------------------------------------- pathlib (POSIX)

\* The texts between the separators of s.
RECURSIVE SplitOnFrom(_, _, _)
SplitOnFrom(s, k, cur) ==
    IF k > Len(s) THEN <<cur>>
    ELSE IF s[k] = SL THEN <<cur>> \o SplitOnFrom(s, k + 1, <<>>)
         ELSE SplitOnFrom(s, k + 1, Append(cur, s[k]))

IsComponent(c) == c # <<>> /\ c # <<DOT>>

\* The components of a path text: empty ones and "." are dropped.
Components(s) == SelectSeq(SplitOnFrom(s, 1, <<>>), IsComponent)

RECURSIVE LeadingSlashes(_)
LeadingSlashes(s) == IF s # <<>> /\ Head(s) = SL THEN 1 + LeadingSlashes(Tail(s)) ELSE 0

\* The root of a path text: exactly two leading separators are kept as "//".
Root(s) ==
    LET n == LeadingSlashes(s)
    IN IF n = 0 THEN <<>> ELSE IF n = 2 THEN <<SL, SL>> ELSE <<SL>>

RECURSIVE JoinComponents(_)
JoinComponents(cs) ==
    IF cs = <<>> THEN <<>>
    ELSE IF Len(cs) = 1 THEN Head(cs)
         ELSE Head(cs) \o <<SL>> \o JoinComponents(Tail(cs))

\* str(Path(s)): the Path value built from a text.
PathOf(s) ==
    LET t == Root(s) \o JoinComponents(Components(s))
    IN IF t = <<>> THEN <<DOT>> ELSE t

\* Path.parts: the root, when there is one, then the components.
Parts(p) == (IF Root(p) = <<>> THEN <<>> ELSE <<Root(p)>>) \o Components(p)

IsPrefixOf(a, b) == Len(a) <= Len(b) /\ SubSeq(b, 1, Len(a)) = a

\* Whether Path.relative_to(base) returns (it raises ValueError otherwise).
IsRelativeTo(p, base) ==
    IF Parts(base) = <<>> THEN Root(p) = <<>> ELSE IsPrefixOf(Parts(base), Parts(p))

\* Path.relative_to(base), for a path that is relative to base.
RelativeTo(p, base) ==
    LET rest == SubSeq(Parts(p), Len(Parts(base)) + 1, Len(Parts(p)))
    IN IF rest = <<>> THEN <<DOT>> ELSE JoinComponents(rest)

\* base / relative, for a relative path.
PathJoin(base, relative) ==
    LET t == Root(base) \o JoinComponents(Components(base) \o Components(relative))
    IN IF t = <<>> THEN <<DOT>> ELSE t

\* ------------------------------------------------------------ the inputs

\* BASE_PATHS_BEFORE_REPLACE of the configuration: "/o".
BASE_PATHS_BEFORE_REPLACE == << <<SL, "o">> >>

\* BASE_PATHS_AFTER_REPLACE of the configurations tried: "/n/o" and "/m", or
\* "/m" listed twice.
AfterRootConfigs == { << <<SL, "n", SL, "o">>, <<SL, "m">> >>,
                      << <<SL, "m">>, <<SL, "m">> >> }

\* The audio files that may be on disk: /o/a, /n/o/a, /m/a, /m/ab, /o/a-acute.
FileCandidates == { <<SL, "o", SL, "a">>,
                    <<SL, "n", SL, "o", SL, "a">>,
                    <<SL, "m", SL, "a">>,
                    <<SL, "m", SL, "a", "b">>,
                    <<SL, "o", SL, A_ACUTE>> }

\* The disks tried: one or two of these files.
Disks == { { <<SL, "n", SL, "o", SL, "a">> },
           { <<SL, "m", SL, "a">> },
           { <<SL, "n", SL, "o", SL, "a">>, <<SL, "m", SL, "a">> },
           { <<SL, "n", SL, "o", SL, "a">>, <<SL, "m", SL, "a", "b">> },
           { <<SL, "o", SL, "a">>, <<SL, "o", SL, A_ACUTE>> },
           { <<SL, "o", SL, "a">>, <<SL, "n", SL, "o", SL, "a">> } } \cap SUBSET FileCandidates

\* The lines a playlist text is made of.
LinePalette == { <<SL, "o", SL, "a">>,
                 <<SL, "o", SL, "a", "b">>,
                 <<SP, SL, "o", SL, "a">>,
                 <<SL, "o", SL, SL, "a">>,
                 <<HASH, SL, "o", SL, "a">>,
                 <<>>,
                 <<SP>>,
                 <<SL, "q", SL, "a">>,
                 <<SL, "o", SL, "a", ACUTE>> }

LineEnds == { <<LF>>, <<CR, LF>> }

RECURSIVE SeqsUpTo(_, _)
SeqsUpTo(S, n) ==
    IF n = 0 THEN { <<>> }
    ELSE LET shorter == SeqsUpTo(S, n - 1)
         IN shorter \cup { Append(q, x) : q \in {r \in shorter : Len(r) = n - 1}, x \in S }

\* The text of the lines ls, each ended by end.
RECURSIVE TextOf(_, _)
TextOf(ls, end) == IF ls = <<>> THEN <<>> ELSE Head(ls) \o end \o TextOf(Tail(ls), end)

Documents == { TextOf(ls, end) : ls \in SeqsUpTo(LinePalette, MaxLines), end \in LineEnds }

Range(q) == { q[k] : k \in 1..Len(q) }

\* ----------------------------------------------------------------- state

VARIABLES
    file_text,          \* the text of the playlist file read
    files,              \* the audio files on disk
    after,              \* BASE_PATHS_AFTER_REPLACE
    pc,                 \* start, search, done or raised
    exc,                \* the exception replace_heads_of_audio_paths raised
    m3u,                \* the M3uFile read (self)
    i,                  \* the place of the loop of replace_heads_of_audio_paths
    paths_replace_dict, \* its dict, as the entries in insertion order
    search_fail_paths,  \* its set of failed references
    stderr,             \* what it printed to sys.stderr
    calls,              \* the search_existing_path calls made, with their outcome
    result,             \* the M3uFile returned
    heap,               \* the AudioPath objects created so far
    norm_text,          \* the text given to the precomposition
    once,               \* its precomposition
    twice,              \* the precomposition of that
    norm_pc,            \* how many times the precomposition was applied
    playlists,          \* the playlists found, in the order of the loop
    d_idx,              \* the place of the driver's loop
    d_stage,            \* read, rewrite, write or end
    original_m3u,       \* the driver's original_m3u
    replaced_m3u,       \* the driver's replaced_m3u
    out_files,          \* the output file of each playlist, or NoFile
    d_log,              \* what the driver printed, per playlist
    d_attempts          \* how many times the loop took up each playlist

rewrite_vars == <<file_text, files, after, pc, exc, m3u, i, paths_replace_dict,
                  search_fail_paths, stderr, calls, result, heap>>
norm_vars == <<norm_text, once, twice, norm_pc>>
driver_vars == <<playlists, d_idx, d_stage, original_m3u, replaced_m3u, out_files,
                 d_log, d_attempts>>
vars == <<rewrite_vars, norm_vars, driver_vars>>

NoDoc == [content |-> <<>>, path_lines |-> <<>>, audio_paths |-> <<>>, none |-> TRUE]
NoExc == "none"

\* --------------------------------------------------------------- AudioPath

\* An AudioPath object: the class defines neither __eq__ nor __hash__, so two
\* objects are equal only when they are the same object (id).
AudioPath(id, path) == [id |-> id, path |-> path]

AudioPathEq(a, b) == a.id = b.id

\* AudioPath.__str__
AudioPath_str(self) == self.path

\* Path.exists(): a file on disk, a directory above one, an after-root (checked
\* when the configuration is loaded), or the current directory.
Exists(path) ==
    \/ Parts(path) = <<>>
    \/ \E f \in files \cup Range(after) : IsPrefixOf(Parts(path), Parts(f))

RECURSIVE TrimFrom(_, _, _)
TrimFrom(self, base_path_candidates, k) ==
    IF k > Len(base_path_candidates)
    THEN [kind |-> "ValueError", path |-> <<>>]
    ELSE IF IsRelativeTo(self.path, base_path_candidates[k])
         THEN [kind |-> "ok", path |-> RelativeTo(self.path, base_path_candidates[k])]
         ELSE TrimFrom(self, base_path_candidates, k + 1)

\* AudioPath.__trim_relative_path_from_base_path
trim_relative_path_from_base_path(self, base_path_candidates) ==
    TrimFrom(self, base_path_candidates, 1)

\* pick_existing_path that settles an ambiguity by order: the first existing
\* candidate wins.
pick_existing_path_first(self, existing_path_candidates) ==
    LET existing == { k \in 1..Len(existing_path_candidates) :
                          Exists(existing_path_candidates[k]) }
    IN IF existing = {}
       THEN [kind |-> "FileNotFoundError", path |-> <<>>, named |-> {}]
       ELSE [kind |-> "ok",
             path |-> existing_path_candidates[CHOOSE k \in existing :
                                                   \A j \in existing : k <= j],
             named |-> {}]

\* AudioPath.__pick_existing_path
pick_existing_path(self, existing_path_candidates) ==
    LET existing_paths == { c \in Range(existing_path_candidates) : Exists(c) }
    IN IF Cardinality(existing_paths) = 0
       THEN [kind |-> "FileNotFoundError", path |-> <<>>, named |-> {}]
       ELSE IF Cardinality(existing_paths) > 1
            THEN [kind |-> "FileExistsError", path |-> <<>>, named |-> existing_paths]
            ELSE [kind |-> "ok", path |-> CHOOSE c \in existing_paths : TRUE, named |-> {}]

\* AudioPath.search_existing_path; a new object gets the id new_id.
search_existing_path(self, base_paths_before_replace, base_paths_after_replace, new_id) ==
    IF Exists(self.path)
    THEN [kind |-> "ok", value |-> self, named |-> {}]
    ELSE LET relative_path ==
                 trim_relative_path_from_base_path(self, base_paths_before_replace)
         IN IF relative_path.kind # "ok"
            THEN [kind |-> relative_path.kind, value |-> self, named |-> {}]
            ELSE LET existing_path_candidates ==
                         [j \in 1..Len(base_paths_after_replace) |->
                              PathJoin(base_paths_after_replace[j], relative_path.path)]
                     existing_path == pick_existing_path(self, existing_path_candidates)
                 IN IF existing_path.kind # "ok"
                    THEN [kind |-> existing_path.kind, value |-> self,
                          named |-> existing_path.named]
                    ELSE [kind |-> "ok", value |-> AudioPath(new_id, existing_path.path),
                          named |-> {}]

\* ----------------------------------------------------------------- M3uFile

\* line[:1] not in ('', '#')
IsPathLine(line) == (IF line = <<>> THEN <<>> ELSE <<line[1]>>) \notin { <<>>, <<HASH>> }

\* private_constructor that leaves the line untrimmed.
private_constructor_untrimmed(content, base) ==
    LET lines == SplitLines(content)
        path_lines == SelectSeq(lines, IsPathLine)
    IN [content |-> content,
        path_lines |-> path_lines,
        audio_paths |-> [k \in 1..Len(path_lines) |->
            AudioPath(base + k, PathOf(replace_combining_chars_to_precomposed(path_lines[k])))],
        none |-> FALSE]

\* M3uFile.__private_constructor; its AudioPath objects get the ids after base.
private_constructor(content, base) ==
    LET lines == SplitLines(content)
        path_lines == SelectSeq(lines, IsPathLine)
    IN [content |-> content,
        path_lines |-> path_lines,
        audio_paths |-> [k \in 1..Len(path_lines) |->
            AudioPath(base + k,
                      PathOf(replace_combining_chars_to_precomposed(Strip(path_lines[k]))))],
        none |-> FALSE]

\* original_audio_path in self.__audio_paths
InAudioPaths(self, original_audio_path) ==
    \E k \in 1..Len(self.audio_paths) : AudioPathEq(self.audio_paths[k], original_audio_path)

\* self.__audio_paths.index(original_audio_path)
IndexOf(self, original_audio_path) ==
    CHOOSE k \in 1..Len(self.audio_paths) :
        /\ AudioPathEq(self.audio_paths[k], original_audio_path)
        /\ \A j \in 1..(k - 1) : ~AudioPathEq(self.audio_paths[j], original_audio_path)

\* The loop of M3uFile.__replace_audio_paths over the dict's entries from k on.
RECURSIVE ReplaceLoop(_, _, _, _)
ReplaceLoop(self, entries, k, replaced_content) ==
    IF k > Len(entries) THEN replaced_content
    ELSE IF ~InAudioPaths(self, entries[k].key)
         THEN ReplaceLoop(self, entries, k + 1, replaced_content)
         ELSE LET target_path_line == self.path_lines[IndexOf(self, entries[k].key)]
              IN ReplaceLoop(self, entries, k + 1,
                             StrReplace(replaced_content, target_path_line,
                                        AudioPath_str(entries[k].value)))

\* M3uFile.__replace_audio_paths
replace_audio_paths(self, entries, base) ==
    LET not_exist_audio_paths ==
            { entries[k].key : k \in { j \in 1..Len(entries) :
                                          ~InAudioPaths(self, entries[j].key) } }
    IN IF not_exist_audio_paths # {}
       THEN [kind |-> "ValueError", value |-> NoDoc]
       ELSE [kind |-> "ok",
             value |-> private_constructor(ReplaceLoop(self, entries, 1, self.content), base)]

\* paths_replace_dict[key] = value
DictSet(entries, key, value) ==
    IF \E k \in 1..Len(entries) : AudioPathEq(entries[k].key, key)
    THEN [k \in 1..Len(entries) |->
             IF AudioPathEq(entries[k].key, key)
             THEN [key |-> entries[k].key, value |-> value] ELSE entries[k]]
    ELSE Append(entries, [key |-> key, value |-> value])

\* One turn of the loop of M3uFile.replace_heads_of_audio_paths on the loop's
\* locals acc: the dict, the failed set, what was printed, the calls made.
search_turn(acc, original_audio_path) ==
    LET r == search_existing_path(original_audio_path, BASE_PATHS_BEFORE_REPLACE,
                                  after, acc.heap + 1)
        called == Append(acc.calls, [ref |-> original_audio_path, outcome |-> r])
    IN IF r.kind # "ok"
       THEN [acc EXCEPT !.calls = called,
                        !.search_fail_paths = @ \cup {original_audio_path},
                        !.stderr = Append(@, [ref |-> original_audio_path,
                                              kind |-> r.kind, named |-> r.named])]
       ELSE [acc EXCEPT !.calls = called,
                        !.paths_replace_dict = DictSet(@, original_audio_path, r.value),
                        !.heap = IF r.value = original_audio_path THEN @ ELSE @ + 1]

RECURSIVE SearchLoop(_, _, _)
SearchLoop(self, k, acc) ==
    IF k > Len(self.audio_paths) THEN acc
    ELSE SearchLoop(self, k + 1, search_turn(acc, self.audio_paths[k]))

\* M3uFile.replace_heads_of_audio_paths, as one call.
replace_heads_of_audio_paths(self, base) ==
    LET acc == SearchLoop(self, 1, [paths_replace_dict |-> <<>>, search_fail_paths |-> {},
                                    stderr |-> <<>>, calls |-> <<>>, heap |-> base])
    IN IF Cardinality(acc.search_fail_paths) > 0
       THEN [kind |-> "FileNotFoundError", value |-> NoDoc]
       ELSE replace_audio_paths(self, acc.paths_replace_dict, acc.heap)

\* ------------------------------------------- one playlist: read and rewrite

NormIdle ==
    /\ norm_text = <<>>
    /\ once = <<>>
    /\ twice = <<>>
    /\ norm_pc = 0

DriverIdle ==
    /\ playlists = <<>>
    /\ d_idx = 0
    /\ d_stage = "end"
    /\ original_m3u = NoDoc
    /\ replaced_m3u = NoDoc
    /\ out_files = <<>>
    /\ d_log = <<>>
    /\ d_attempts = <<>>

RewriteLocals ==
    /\ exc = NoExc
    /\ m3u = NoDoc
    /\ i = 0
    /\ paths_replace_dict = <<>>
    /\ search_fail_paths = {}
    /\ stderr = <<>>
    /\ calls = <<>>
    /\ result = NoDoc
    /\ heap = 0

Init ==
    /\ file_text \in Documents
    /\ files \in Disks
    /\ after \in AfterRootConfigs
    /\ pc = "start"
    /\ RewriteLocals
    /\ NormIdle
    /\ DriverIdle

\* M3uFile.read_file
ReadFile ==
    /\ pc = "start"
    /\ m3u' = private_constructor(file_text, heap)
    /\ heap' = heap + Len(m3u'.audio_paths)
    /\ pc' = "search"
    /\ i' = 1
    /\ UNCHANGED <<file_text, files, after, exc, paths_replace_dict, search_fail_paths,
                   stderr, calls, result>>
    /\ UNCHANGED <<norm_vars, driver_vars>>

\* SearchStep that raises at the first failure instead of collecting it.
SearchStep_raise_at_once ==
    /\ pc = "search"
    /\ i <= Len(m3u.audio_paths)
    /\ LET acc == search_turn([paths_replace_dict |-> paths_replace_dict,
                               search_fail_paths |-> search_fail_paths,
                               stderr |-> stderr, calls |-> calls, heap |-> heap],
                              m3u.audio_paths[i])
       IN /\ paths_replace_dict' = acc.paths_replace_dict
          /\ search_fail_paths' = acc.search_fail_paths
          /\ stderr' = acc.stderr
          /\ calls' = acc.calls
          /\ heap' = acc.heap
          /\ pc' = IF acc.search_fail_paths # {} THEN "raised" ELSE pc
          /\ exc' = IF acc.search_fail_paths # {} THEN "FileNotFoundError" ELSE exc
    /\ i' = i + 1
    /\ UNCHANGED <<file_text, files, after, m3u, result>>
    /\ UNCHANGED <<norm_vars, driver_vars>>

\* One turn of the loop of M3uFile.replace_heads_of_audio_paths.
SearchStep ==
    /\ pc = "search"
    /\ i <= Len(m3u.audio_paths)
    /\ LET acc == search_turn([paths_replace_dict |-> paths_replace_dict,
                               search_fail_paths |-> search_fail_paths,
                               stderr |-> stderr, calls |-> calls, heap |-> heap],
                              m3u.audio_paths[i])
       IN /\ paths_replace_dict' = acc.paths_replace_dict
          /\ search_fail_paths' = acc.search_fail_paths
          /\ stderr' = acc.stderr
          /\ calls' = acc.calls
          /\ heap' = acc.heap
    /\ i' = i + 1
    /\ UNCHANGED <<file_text, files, after, pc, exc, m3u, result>>
    /\ UNCHANGED <<norm_vars, driver_vars>>

\* After the loop: raise FileNotFoundError when a search failed.
RaiseBatch ==
    /\ pc = "search"
    /\ i > Len(m3u.audio_paths)
    /\ Cardinality(search_fail_paths) > 0
    /\ pc' = "raised"
    /\ exc' = "FileNotFoundError"
    /\ UNCHANGED <<file_text, files, after, m3u, i, paths_replace_dict,
                   search_fail_paths, stderr, calls, result, heap>>
    /\ UNCHANGED <<norm_vars, driver_vars>>

\* ReplaceAndReturn that also goes on with the references that were found when
\* others failed.
ReplaceAndReturn_partial ==
    /\ pc = "search"
    /\ i > Len(m3u.audio_paths)
    /\ Cardinality(search_fail_paths) = 0 \/ paths_replace_dict # <<>>
    /\ LET replaced == replace_audio_paths(m3u, paths_replace_dict, heap)
       IN /\ result' = replaced.value
          /\ heap' = heap + Len(replaced.value.audio_paths)
          /\ pc' = "done"
          /\ exc' = exc
    /\ UNCHANGED <<file_text, files, after, m3u, i, paths_replace_dict,
                   search_fail_paths, stderr, calls>>
    /\ UNCHANGED <<norm_vars, driver_vars>>

\* After the loop: __replace_audio_paths and return.
ReplaceAndReturn ==
    /\ pc = "search"
    /\ i > Len(m3u.audio_paths)
    /\ Cardinality(search_fail_paths) = 0
    /\ LET replaced == replace_audio_paths(m3u, paths_replace_dict, heap)
       IN IF replaced.kind = "ok"
          THEN /\ result' = replaced.value
               /\ heap' = heap + Len(replaced.value.audio_paths)
               /\ pc' = "done"
               /\ exc' = exc
          ELSE /\ pc' = "raised"
               /\ exc' = replaced.kind
               /\ UNCHANGED <<result, heap>>
    /\ UNCHANGED <<file_text, files, after, m3u, i, paths_replace_dict,
                   search_fail_paths, stderr, calls>>
    /\ UNCHANGED <<norm_vars, driver_vars>>

Next ==
    \/ ReadFile
    \/ SearchStep
    \/ RaiseBatch
    \/ ReplaceAndReturn

Spec == Init /\ [][Next]_vars

\* ------------------------------------------------ what the claims speak of

\* The first before-root the path lies under, or 0.
FirstRoot(path) ==
    LET under == { k \in 1..Len(BASE_PATHS_BEFORE_REPLACE) :
                       IsRelativeTo(path, BASE_PATHS_BEFORE_REPLACE[k]) }
    IN IF under = {} THEN 0 ELSE CHOOSE k \in under : \A j \in under : k <= j

\* The tail of a path that lies under a before-root.
TailOf(path) == RelativeTo(path, BASE_PATHS_BEFORE_REPLACE[FirstRoot(path)])

\* The candidates afterRoots[j]/tail that exist on disk.
ExistingCandidates(path) ==
    { c \in { PathJoin(after[j], TailOf(path)) : j \in 1..Len(after) } : Exists(c) }

\* Whether the search for a path has a result.
Resolves(path) ==
    \/ Exists(path)
    \/ FirstRoot(path) # 0 /\ Cardinality(ExistingCandidates(path)) = 1

Returned == pc \in {"done", "raised"}

\* C1: all-or-nothing batch failure. When the search fails for at least one
\* parsed reference, the call raises the batch error (FileNotFoundError) and
\* returns no document: nothing was replaced, and the content of the document
\* read is still the text of the file.
C1_AllOrNothing ==
    (Returned /\ \E k \in 1..Len(m3u.audio_paths) : ~Resolves(m3u.audio_paths[k].path))
        => /\ pc = "raised"
           /\ exc = "FileNotFoundError"
           /\ result = NoDoc
           /\ m3u.content = file_text

\* A call that raised although one of its references had a new location.
C1_Witness ==
    /\ pc = "raised"
    /\ \E k \in 1..Len(m3u.audio_paths) :
           /\ Resolves(m3u.audio_paths[k].path)
           /\ ~Exists(m3u.audio_paths[k].path)
    /\ \E k \in 1..Len(m3u.audio_paths) : ~Resolves(m3u.audio_paths[k].path)

\* C2: collect, then raise. When the batch error is raised, the search was
\* called for every parsed reference, in order, whatever failed before it, and
\* every failing reference was printed on its own before the raise, with the
\* kind of its error.
C2_CollectThenRaise ==
    (pc = "raised" /\ exc = "FileNotFoundError")
        => /\ Len(calls) = Len(m3u.audio_paths)
           /\ \A k \in 1..Len(calls) : calls[k].ref = m3u.audio_paths[k]
           /\ \A k \in 1..Len(m3u.audio_paths) :
                  ~Resolves(m3u.audio_paths[k].path)
                      => \E e \in 1..Len(stderr) :
                             /\ stderr[e].ref = m3u.audio_paths[k]
                             /\ stderr[e].kind = calls[k].outcome.kind
                             /\ stderr[e].kind \in {"ValueError", "FileNotFoundError",
                                                    "FileExistsError"}
           /\ Len(stderr) = Cardinality({ k \in 1..Len(m3u.audio_paths) :
                                             ~Resolves(m3u.audio_paths[k].path) })

\* A raise after the first reference failed and a later one was still searched,
\* the two failing with different errors.
C2_Witness ==
    /\ pc = "raised"
    /\ Len(m3u.audio_paths) >= 2
    /\ Len(stderr) >= 2
    /\ stderr[1].ref = m3u.audio_paths[1]
    /\ stderr[2].ref = m3u.audio_paths[2]
    /\ stderr[1].kind # stderr[2].kind

\* C5: ambiguity is an error. For a reference that does not exist and lies
\* under a before-root: when more than one distinct candidate afterRoots[j]/tail
\* exists the search fails with FileExistsError naming all of them; when exactly
\* one exists it returns a new reference holding it; when none exists it fails
\* with FileNotFoundError.
C5_AmbiguityIsAnError ==
    \A k \in 1..Len(calls) :
        LET ref == calls[k].ref
            outcome == calls[k].outcome
        IN (~Exists(ref.path) /\ FirstRoot(ref.path) # 0)
               => LET found == ExistingCandidates(ref.path)
                  IN /\ Cardinality(found) > 1
                         => /\ outcome.kind = "FileExistsError"
                            /\ outcome.named = found
                            /\ \E e \in 1..Len(stderr) :
                                   /\ stderr[e].ref = ref
                                   /\ stderr[e].kind = "FileExistsError"
                                   /\ stderr[e].named = found
                     /\ Cardinality(found) = 1
                         => /\ outcome.kind = "ok"
                            /\ outcome.value.path \in found
                            /\ ~AudioPathEq(outcome.value, ref)
                     /\ Cardinality(found) = 0 => outcome.kind = "FileNotFoundError"

\* A search that found the tail under both after-roots.
C5_Witness ==
    \E k \in 1..Len(calls) :
        /\ ~Exists(calls[k].ref.path)
        /\ FirstRoot(calls[k].ref.path) # 0
        /\ Cardinality(ExistingCandidates(calls[k].ref.path)) = 2
        /\ calls[k].outcome.kind = "FileExistsError"

\* The documents built so far: the one read and the one returned.
Built == (IF pc = "start" THEN {} ELSE {m3u}) \cup (IF pc = "done" THEN {result} ELSE {})

\* A line that is not empty and does not start with '#'.
NeitherBlankNorDirective(line) == line # <<>> /\ line[1] # HASH

\* The path lines are the lines that are neither blank nor a directive, and
\* there is one parsed reference for each.
PathLinesOf(doc) ==
    /\ doc.path_lines = SelectSeq(SplitLines(doc.content), NeitherBlankNorDirective)
    /\ Len(doc.audio_paths) = Len(doc.path_lines)

\* The i-th raw path line, trimmed and Unicode-normalized.
TrimmedNormalized(doc, k) == replace_combining_chars_to_precomposed(Strip(doc.path_lines[k]))

\* C7 as stated: in every document built, there are as many path lines as
\* parsed references, a line is a path line iff it is not empty and does not
\* start with '#', and the i-th raw path line, trimmed and Unicode-normalized,
\* is exactly the string form of the i-th parsed reference.
C7_AlignedAsStated ==
    \A doc \in Built :
        /\ PathLinesOf(doc)
        /\ \A k \in 1..Len(doc.path_lines) :
               AudioPath_str(doc.audio_paths[k]) = TrimmedNormalized(doc, k)

\* C7 as amended: the same, but the string form of the i-th parsed reference is
\* the path made of the i-th raw path line, trimmed and Unicode-normalized:
\* that text with repeated separators, "." components and a trailing separator
\* dropped, and "." for the empty text.
C7_Aligned ==
    \A doc \in Built :
        /\ PathLinesOf(doc)
        /\ \A k \in 1..Len(doc.path_lines) :
               AudioPath_str(doc.audio_paths[k]) = PathOf(TrimmedNormalized(doc, k))

\* A document read and one returned, the one read with a path line that is
\* not the text of its path.
C7_Witness ==
    /\ pc = "done"
    /\ result.path_lines # <<>>
    /\ \E k \in 1..Len(m3u.path_lines) :
           /\ PathOf(TrimmedNormalized(m3u, k)) # TrimmedNormalized(m3u, k)
           /\ Strip(m3u.path_lines[k]) # m3u.path_lines[k]

\* C3: round trip of a rewrite that moves nothing. When every parsed reference
\* exists on disk, the content of the document returned is the text read.
C3_RoundTrip ==
    (pc = "done" /\ \A k \in 1..Len(m3u.audio_paths) : Exists(m3u.audio_paths[k].path))
        => result.content = file_text

\* The place among the path lines of line k, a path line.
PathIndex(lines, k) == Cardinality({ j \in 1..k : IsPathLine(lines[j].line) })

\* C4: the frame of the output. After a rewrite that returned, every blank or
\* '#' line is where it was, unchanged, the line separators are unchanged, and
\* every path line whose new location is its old one is unchanged.
C4_OutputFrame ==
    pc = "done"
        => LET inl == SplitLinesKeep(file_text)
               outl == SplitLinesKeep(result.content)
           IN /\ Len(outl) = Len(inl)
              /\ \A k \in 1..Len(inl) :
                     /\ outl[k].end = inl[k].end
                     /\ ~IsPathLine(inl[k].line) => outl[k].line = inl[k].line
                     /\ (/\ IsPathLine(inl[k].line)
                         /\ calls[PathIndex(inl, k)].outcome.value.path
                                = m3u.audio_paths[PathIndex(inl, k)].path)
                            => outl[k].line = inl[k].line

\* C6: duplicates are processed once. Two references are equal iff their path
\* values are equal, and for every path value of the document the search is
\* called exactly once, the dict has at most one entry and at most one failure
\* is printed.
C6_DuplicatesOnce ==
    /\ \A a \in Range(m3u.audio_paths), b \in Range(m3u.audio_paths) :
           AudioPathEq(a, b) <=> a.path = b.path
    /\ Returned
           => \A v \in { a.path : a \in Range(m3u.audio_paths) } :
                  /\ Cardinality({ k \in 1..Len(calls) : calls[k].ref.path = v }) = 1
                  /\ Cardinality({ k \in 1..Len(paths_replace_dict) :
                                       paths_replace_dict[k].key.path = v }) <= 1
                  /\ Cardinality({ k \in 1..Len(stderr) : stderr[k].ref.path = v }) <= 1

\* C9: the result is fully rewritten. A document returned has as many path
\* lines as the one read, and its i-th parsed reference has the path the search
\* returned for the i-th reference read.
C9_FullyRewritten ==
    pc = "done"
        => /\ Len(result.audio_paths) = Len(m3u.audio_paths)
           /\ \A k \in 1..Len(m3u.audio_paths) :
                  result.audio_paths[k].path = calls[k].outcome.value.path

\* -------------------------------------------- the precomposition, twice

\* The characters of the texts precomposed: a, U+0301, U+00E1, U+0F73, U+0F71,
\* U+0F72.
UnicodeAlphabet == {"a", ACUTE, A_ACUTE, TIB_II, TIB_AA, TIB_I}

RewriteIdle ==
    /\ file_text = <<>>
    /\ files = {}
    /\ after = <<>>
    /\ pc = "idle"
    /\ RewriteLocals

InitNorm ==
    /\ norm_text \in SeqsUpTo(UnicodeAlphabet, MaxTextLen)
    /\ once = <<>>
    /\ twice = <<>>
    /\ norm_pc = 0
    /\ RewriteIdle
    /\ DriverIdle

\* Diacritics.replace_combining_chars_to_precomposed(text)
Precompose ==
    /\ norm_pc = 0
    /\ once' = replace_combining_chars_to_precomposed(norm_text)
    /\ norm_pc' = 1
    /\ UNCHANGED <<norm_text, twice>>
    /\ UNCHANGED <<rewrite_vars, driver_vars>>

\* The same, of the text it returned.
PrecomposeAgain ==
    /\ norm_pc = 1
    /\ twice' = replace_combining_chars_to_precomposed(once)
    /\ norm_pc' = 2
    /\ UNCHANGED <<norm_text, once>>
    /\ UNCHANGED <<rewrite_vars, driver_vars>>

NextNorm ==
    \/ Precompose
    \/ PrecomposeAgain

SpecNorm == InitNorm /\ [][NextNorm]_vars

\* C8: the normalization is idempotent: normalizing the normalized text gives
\* the normalized text. And a combining mark that starts the text, with no
\* other mark after it, stays the first character.
C8_Idempotent ==
    /\ norm_pc = 2 => twice = once
    /\ (/\ norm_pc >= 1
        /\ norm_text # <<>>
        /\ IsCombining(norm_text[1])
        /\ Len(norm_text) = 1 \/ ~IsCombining(norm_text[2]))
           => once[1] = norm_text[1]

\* ------------------------------------------------------ the driver's loop

\* The playlist texts the driver is given: "/o/a", "/q/a" and "#/o/a", a line
\* each.
DriverTexts == { <<SL, "o", SL, "a", LF>>,
                 <<SL, "q", SL, "a", LF>>,
                 <<HASH, SL, "o", SL, "a", LF>> }

\* An output path with no file, and the text of a file that was there before
\* the run.
NoFile == <<"no file">>
OldFile == <<"old file">>

InitDriver ==
    /\ playlists \in { q \in SeqsUpTo([text : DriverTexts, out_exists : BOOLEAN],
                                      MaxPlaylists) : Len(q) >= 1 }
    /\ d_idx = 1
    /\ d_stage = "read"
    /\ original_m3u = NoDoc
    /\ replaced_m3u = NoDoc
    /\ out_files = [p \in 1..Len(playlists) |->
                        IF playlists[p].out_exists THEN OldFile ELSE NoFile]
    /\ d_log = <<>>
    /\ d_attempts = [p \in 1..Len(playlists) |-> 0]
    /\ file_text = <<>>
    /\ files = { <<SL, "m", SL, "a">> }
    /\ after = << <<SL, "n", SL, "o">>, <<SL, "m">> >>
    /\ pc = "idle"
    /\ RewriteLocals
    /\ NormIdle

\* continue, with msgs printed for the playlist at hand.
Continue(msgs) ==
    /\ d_log' = d_log \o [k \in 1..Len(msgs) |-> [playlist |-> d_idx, msg |-> msgs[k]]]
    /\ d_idx' = d_idx + 1
    /\ d_stage' = IF d_idx + 1 > Len(playlists) THEN "end" ELSE "read"

\* The head of a turn of the loop and M3uFile.read_file, which may raise.
DriverRead ==
    /\ d_stage = "read"
    /\ d_attempts' = [d_attempts EXCEPT ![d_idx] = @ + 1]
    /\ \E readable \in BOOLEAN :
           IF readable
           THEN /\ original_m3u' = private_constructor(playlists[d_idx].text, 0)
                /\ d_log' = Append(d_log, [playlist |-> d_idx, msg |-> "processing"])
                /\ d_stage' = "rewrite"
                /\ UNCHANGED d_idx
           ELSE /\ Continue(<<"processing", "failed (read)">>)
                /\ UNCHANGED original_m3u
    /\ UNCHANGED <<playlists, replaced_m3u, out_files>>
    /\ UNCHANGED <<rewrite_vars, norm_vars>>

\* original_m3u.replace_heads_of_audio_paths(...) in the loop.
DriverRewrite ==
    /\ d_stage = "rewrite"
    /\ LET r == replace_heads_of_audio_paths(original_m3u, Len(original_m3u.audio_paths))
       IN IF r.kind = "ok"
          THEN /\ replaced_m3u' = r.value
               /\ d_stage' = "write"
               /\ UNCHANGED <<d_idx, d_log>>
          ELSE /\ Continue(<<"failed (rewrite)">>)
               /\ UNCHANGED replaced_m3u
    /\ UNCHANGED <<playlists, original_m3u, out_files, d_attempts>>
    /\ UNCHANGED <<rewrite_vars, norm_vars>>

\* DriverWrite without the check of M3uFile.write_file that the path is free.
DriverWrite_overwrite ==
    /\ d_stage = "write"
    /\ \E written \in BOOLEAN :
           IF written
           THEN /\ out_files' = [out_files EXCEPT ![d_idx] = replaced_m3u.content]
                /\ Continue(<<"done">>)
           ELSE /\ Continue(<<"failed (write)">>)
                /\ UNCHANGED out_files
    /\ UNCHANGED <<playlists, original_m3u, replaced_m3u, d_attempts>>
    /\ UNCHANGED <<rewrite_vars, norm_vars>>

\* replaced_m3u.write_file(replaced_m3u_path) in the loop: it refuses a path
\* that exists, and mkdir or write_text may raise.
DriverWrite ==
    /\ d_stage = "write"
    /\ IF out_files[d_idx] # NoFile
       THEN /\ Continue(<<"failed (write)">>)
            /\ UNCHANGED out_files
       ELSE \E written \in BOOLEAN :
                IF written
                THEN /\ out_files' = [out_files EXCEPT ![d_idx] = replaced_m3u.content]
                     /\ Continue(<<"done">>)
                ELSE /\ Continue(<<"failed (write)">>)
                     /\ UNCHANGED out_files
    /\ UNCHANGED <<playlists, original_m3u, replaced_m3u, d_attempts>>
    /\ UNCHANGED <<rewrite_vars, norm_vars>>

NextDriver ==
    \/ DriverRead
    \/ DriverRewrite
    \/ DriverWrite

SpecDriver == InitDriver /\ [][NextDriver]_vars

\* What was printed for playlist p.
Printed(p) == { d_log[k].msg : k \in { j \in 1..Len(d_log) : d_log[j].playlist = p } }

Failures == {"failed (read)", "failed (rewrite)", "failed (write)"}

\* The rewrite of the text of playlist p has a result.
RewriteSucceeds(p) ==
    \A ref \in Range(private_constructor(playlists[p].text, 0).audio_paths) :
        Resolves(ref.path)

DriverInvariant ==
    \A p \in 1..Len(playlists) :
        /\ d_attempts[p] <= 1
        /\ playlists[p].out_exists => out_files[p] = OldFile
        /\ (~playlists[p].out_exists /\ out_files[p] # NoFile)
               => /\ RewriteSucceeds(p)
                  /\ Printed(p) = {"processing", "done"}
        /\ (d_stage = "end" \/ p < d_idx)
               => /\ d_attempts[p] = 1
                  /\ \/ Printed(p) = {"processing", "done"} /\ out_files[p] # NoFile
                     \/ \E f \in Failures : Printed(p) = {"processing", f}

\* C10: the driver keeps the playlists apart. A failure at the read, rewrite
\* or write of one playlist is printed and the loop goes on with the next one:
\* every playlist is taken up at most once, those before the place of the loop
\* exactly once, and the loop ends only past the last one; an output file is
\* written only for a playlist that was read and rewritten, and an output file
\* that was there before is never changed.
C10_DriverIsolation ==
    /\ DriverInvariant
    /\ d_stage = "end" <=> d_idx = Len(playlists) + 1
    /\ d_idx \in 1..(Len(playlists) + 1)

\* A run that ended with the first playlist's write refused, its output being
\* there already, and the second playlist written.
C10_Witness ==
    /\ d_stage = "end"
    /\ Len(playlists) >= 2
    /\ playlists[1].out_exists
    /\ Printed(1) = {"processing", "failed (write)"}
    /\ out_files[1] = OldFile
    /\ Printed(2) = {"processing", "done"}
    /\ out_files[2] \notin {NoFile, OldFile}

====
